---- MODULE Spec2Model ----
(***************************************************************************)
(* Model of the hashdb storage engine (databases/infrastructure/files)     *)
(* and of the hash-indexed facade layered on it.                           *)
(*                                                                         *)
(* A database file is modelled by its three regions: the 8-byte length     *)
(* prefix, the encoded reference and the data region.  A context holds a   *)
(* file handle (a snapshot of the inode it was opened on), the reference,  *)
(* the data offset and the two pending buffers.                            *)
(***************************************************************************)
EXTENDS Integers, Sequences, FiniteSets, TLC

VARIABLES
    contexts,   \* app.contexts: context id -> context
    orphans,    \* names of the contexts replaced in app.contexts while open
    disk,       \* per database name: the source, destination and backup files
    committed,  \* history: per (kind, hash) the payload last committed and not erased
    failures,   \* history: number of I/O failures injected so far
    fileLocks,  \* per database path: who holds the advisory lock on it
    rewrite,    \* the updateDatabaseOnFile call in progress, if any
    reading,    \* the chunked read of a reference in retrieveReference
    removals,   \* history: number of databases removed by Delete so far
    last        \* history: the last operation, its arguments and its outcome

vars ==
    <<contexts, orphans, disk, committed, failures, fileLocks, rewrite, reading, removals,
      last>>

----------------------------------------------------------------------------
(* Bounds of the model *)

MaxPending == 2      \* most writes and erasures buffered in one batch (Spec)
MaxCommits == 3      \* longest commit log (Spec)
MaxFailures == 1     \* injected I/O failures per behaviour (SpecIO, SpecLock)
MaxPendingIO == 1    \* most writes and erasures buffered in one batch (SpecIO)
MaxCommitsIO == 2    \* longest commit log (SpecIO)
MaxPendingNames == 1 \* most writes buffered in one batch (SpecNames)
MaxCommitsNames == 1 \* longest commit log (SpecNames)
MaxRefLength == 6    \* longest stored reference, in bytes (SpecChunks)
MaxChunkSize == 4    \* largest configured read chunk size (SpecChunks)
MaxRemovals == 1     \* databases removed by Delete per behaviour (SpecIO, SpecNames)

Names == {"a", "b"}              \* database names on disk
DeepNames == {"a"}               \* the name Spec and SpecIO open
Kinds == {0, 1}
Hashes == {1, 2}
CtxIds == {0, 1}

\* the writes offered to a context: (kind, hash, payload bytes)
Contents ==
    {<<0, 1, <<1>>>>, <<1, 1, <<2, 2>>>>, <<0, 2, <<3>>>>, <<0, 1, <<4, 4>>>>}

\* the writes offered where I/O fails: one payload is empty
ContentsIO ==
    {<<0, 1, <<1>>>>, <<1, 1, <<2, 2>>>>, <<0, 2, <<>>>>}

----------------------------------------------------------------------------
(* Program constants *)

expectedReferenceBytesLength == 8
pointerSize == 8 * 2
hashSize == 64
minHashtreeSize == 8
actionSize == minHashtreeSize + 1 + 8
commitMinSize == 8 + 8 + actionSize
contentKeySize == hashSize + pointerSize + 8 + hashSize

----------------------------------------------------------------------------
(* Generic helpers *)

Range(s) == {s[i] : i \in DOMAIN s}

\* all the orders in which a Go map with key set S can be iterated
Orderings(S) ==
    {s \in [1..Cardinality(S) -> S] : \A i, j \in 1..Cardinality(S) : s[i] = s[j] => i = j}

RECURSIVE SumLengths(_)
SumLengths(keys) ==
    IF keys = <<>> THEN 0
    ELSE keys[1].content.length + SumLengths(Tail(keys))

RECURSIVE Concat(_)
Concat(seqs) ==
    IF seqs = <<>> THEN <<>> ELSE seqs[1] \o Concat(Tail(seqs))

----------------------------------------------------------------------------
(* Unsigned 64-bit integers *)

\* A uint of a 64-bit build is kept as its four digits in base 2^16, the most
\* significant first: <<0, 0, 0, 5>> is 5 and <<65535, 65535, 65535, 65535>> is
\* 2^64 - 1 = 18446744073709551615.
Base == 65536

\* uint(offset) of an int64 offset: the same 64 bits, so that a negative
\* offset wraps to 2^64 + offset (the complement of -offset - 1)
ToUint(offset) ==
    LET m == IF offset >= 0 THEN offset ELSE (0 - offset) - 1
        hi == m \div Base
        lo == m % Base
    IN  IF offset >= 0 THEN <<0, 0, hi, lo>>
        ELSE <<Base - 1, Base - 1, Base - 1 - hi, Base - 1 - lo>>

\* u + v of two uint: the sum modulo 2^64, the carry out of the top digit is
\* dropped
UintAdd(u, v) ==
    LET s4 == u[4] + v[4]
        s3 == u[3] + v[3] + s4 \div Base
        s2 == u[2] + v[2] + s3 \div Base
        s1 == u[1] + v[1] + s2 \div Base
    IN  <<s1 % Base, s2 % Base, s3 % Base, s4 % Base>>

\* int64(u) of a uint: the same 64 bits read as a signed number, negative when
\* the top bit is set
ToInt64(u) ==
    IF u[1] < Base \div 2
    THEN ((u[1] * Base + u[2]) * Base + u[3]) * Base + u[4]
    ELSE 0 - ((((Base - 1 - u[1]) * Base + (Base - 1 - u[2])) * Base
                    + (Base - 1 - u[3])) * Base + (Base - 1 - u[4])) - 1

----------------------------------------------------------------------------
(* Domain objects: references *)

Pointer(from, length) == [from |-> from, length |-> length]

ContentKey(hash, kind, content, commit) ==
    [hash |-> hash, kind |-> kind, content |-> content, commit |-> commit]

Content(hash, kind, data) == [hash |-> hash, kind |-> kind, data |-> data]

NoParent == <<>>

\* the hash-tree over blocks, an opaque deterministic summary of the blocks
HashTree(blocks) == blocks

Action(type, tree) == [type |-> type, tree |-> tree]

\* variant of Commit whose hash leaves out the parent and the time
CommitHashedByAction(parent, action, createdOn) ==
    [parent |-> parent, action |-> action, createdOn |-> createdOn,
     hash |-> <<"H", action>>]

\* a commit's identity digest, derived from (parent?, action, created_on)
CommitHash(parent, action, createdOn) == <<"H", parent, action, createdOn>>

Commit(parent, action, createdOn) ==
    [parent |-> parent, action |-> action, createdOn |-> createdOn,
     hash |-> CommitHash(parent, action, createdOn)]

NilReference ==
    [isNil |-> TRUE, hasContentKeys |-> FALSE, contentKeys |-> <<>>, commits |-> <<>>]

\* referenceBuilder.WithCommits(commits)[.WithContentKeys(keys)].Now()
Reference(contentKeysList, commitsList) ==
    [isNil |-> FALSE, hasContentKeys |-> Len(contentKeysList) > 0,
     contentKeys |-> contentKeysList, commits |-> commitsList]

\* ContentKeys.Next(): the offset at which the next payload is placed
ContentKeysNext(keys) == SumLengths(keys)

\* ContentKeys.ListByKind(kind): the keys of that kind, in order
ListByKind(keys, kind) == SelectSeq(keys, LAMBDA ck : ck.kind = kind)

\* ContentKeys.Fetch(kind, hash): linear scan, first match
FetchKey(keys, kind, hash) ==
    LET hits == SelectSeq(keys, LAMBDA ck : ck.kind = kind /\ ck.hash = hash)
    IN  IF hits = <<>> THEN [found |-> FALSE, key |-> ContentKey(hash, kind, Pointer(ToUint(0), 0), NoParent)]
        ELSE [found |-> TRUE, key |-> hits[1]]

Latest(commits) == commits[Len(commits)]

\* Commits.Fetch(hash): linear scan, first match
CommitsFetch(commits, hash) ==
    LET hits == SelectSeq(commits, LAMBDA c : c.hash = hash)
    IN  IF hits = <<>> THEN [found |-> FALSE, commit |-> Commit(NoParent, Action("insert", <<>>), 0)]
        ELSE [found |-> TRUE, commit |-> hits[1]]

----------------------------------------------------------------------------
(* Reference codec and files *)

\* referenceAdapter.ToContent: the content keys (none when absent), then the commits
ToContent(ref) ==
    <<IF ref.hasContentKeys THEN ref.contentKeys ELSE <<>>, ref.commits>>

\* referenceAdapter.ToReference
ToReference(bytes) == Reference(bytes[1], bytes[2])

\* length in bytes of an encoded reference
RefLen(bytes) == Len(bytes[1]) * contentKeySize + Len(bytes[2]) * commitMinSize

\* a file: the bytes written to it (length prefix and encoded reference, then
\* the data region), of which the file holds those after the first skip bytes
\* and, when a write of it was cut short (torn), cut bytes of them
Missing ==
    [exists |-> FALSE, torn |-> FALSE, skip |-> 0, cut |-> 0, hasRef |-> FALSE,
     ref |-> <<<<>>, <<>>>>, data |-> <<>>]

\* the zero-byte file New creates
EmptyFile ==
    [exists |-> TRUE, torn |-> FALSE, skip |-> 0, cut |-> 0, hasRef |-> FALSE,
     ref |-> <<<<>>, <<>>>>, data |-> <<>>]

\* length prefix, encoded reference, data region
File(refBytes, data) ==
    [exists |-> TRUE, torn |-> FALSE, skip |-> 0, cut |-> 0, hasRef |-> TRUE,
     ref |-> refBytes, data |-> data]

\* the length prefix and the encoded reference
HeaderSize(file) ==
    IF file.hasRef THEN expectedReferenceBytesLength + RefLen(file.ref) ELSE 0

\* the number of bytes the file holds
FileSize(file) ==
    IF file.torn THEN file.cut ELSE HeaderSize(file) + Len(file.data) - file.skip

\* the first size bytes of a file, all that a write cut short left of it: the
\* reference it announces once the 8-byte prefix is whole, and the payload
\* bytes that lie before the cut
Cut(file, size) ==
    LET end == file.skip + size
        whole == file.hasRef /\ end >= expectedReferenceBytesLength
        held == end - HeaderSize(file)
    IN  [exists |-> TRUE, torn |-> TRUE, skip |-> IF size = 0 THEN 0 ELSE file.skip,
         cut |-> size, hasRef |-> whole,
         ref |-> IF whole THEN file.ref ELSE <<<<>>, <<>>>>,
         data |-> IF whole /\ held > 0 THEN SubSeq(file.data, 1, held) ELSE <<>>]

\* the bytes of a file from offset pos on, all that a sequential read from pos
\* returns: the file itself from 0, no byte from its end
Rest(file, pos) ==
    IF pos = 0 THEN file
    ELSE IF pos >= FileSize(file) THEN EmptyFile
    ELSE [file EXCEPT !.skip = @ + pos, !.cut = IF file.torn THEN @ - pos ELSE @]

\* referenceToContent: 8-byte little-endian length, then the encoded reference
referenceToContent(ref) == File(ToContent(ref), <<>>)

\* an open read handle: the inode it was opened on, whether it was closed,
\* and its sequential position, the offset of the next byte Read returns
Handle(file) == [file |-> file, closed |-> FALSE, pos |-> 0]

ReadErr == [ok |-> FALSE, bytes |-> <<>>]
ReadOk(bytes) == [ok |-> TRUE, bytes |-> bytes]

\* the byte at position p (from 1) of a file, the byte q = skip + p of what
\* was written: a byte of the data region, or the q-th byte of the length
\* prefix and encoded reference, which the model tells apart from every
\* payload byte by its sign
ByteAt(file, p) ==
    LET q == file.skip + p
    IN  IF file.hasRef /\ q > HeaderSize(file) THEN file.data[q - HeaderSize(file)] ELSE 0 - q

\* os.File.ReadAt(buf[0:n], off): a negative offset is refused; an empty buffer
\* is filled without a system call, whatever the state of the descriptor;
\* otherwise the read fails when the handle is closed or fewer than n bytes
\* lie at off
ReadAt(handle, off, n) ==
    IF off < 0 THEN ReadErr
    ELSE IF n = 0 THEN ReadOk(<<>>)
    ELSE IF handle.closed THEN ReadErr
    ELSE IF off + n > FileSize(handle.file) THEN ReadErr
    ELSE ReadOk([i \in 1..n |-> ByteAt(handle.file, off + i)])

----------------------------------------------------------------------------
(* Contexts *)

Keys == Kinds \X Hashes

\* makeToDeleteKeyname: "%d%s" of the kind and the fixed-width hex of the hash
makeToDeleteKeyname(kind, hash) == <<kind, hash>>

EmptyDelList == [k \in {} |-> ContentKey(0, 0, Pointer(ToUint(0), 0), NoParent)]

Context(name, pConn, reference, dataOffset) ==
    [name |-> name, pConn |-> pConn, reference |-> reference, dataOffset |-> dataOffset,
     insertList |-> <<>>, delList |-> EmptyDelList]

\* the number of changes buffered in a context
Pending(ctx) == Len(ctx.insertList) + Cardinality(DOMAIN ctx.delList)

NoContexts == [i \in {} |-> Context("a", Handle(EmptyFile), NilReference, 0)]

PutContext(ctxs, id, ctx) ==
    [i \in DOMAIN ctxs \cup {id} |-> IF i = id THEN ctx ELSE ctxs[i]]

DropContext(ctxs, id) == [i \in DOMAIN ctxs \ {id} |-> ctxs[i]]

----------------------------------------------------------------------------
(* Engine reads *)

\* application.Read(context, pointer)
engineRead(ctxs, id, pointer) ==
    IF id \in DOMAIN ctxs
    THEN ReadAt(ctxs[id].pConn,
                ToInt64(UintAdd(ToUint(ctxs[id].dataOffset), pointer.from)),
                pointer.length)
    ELSE ReadErr

\* application.ReadAll(context, pointers): one Read per pointer, the first
\* error ends the loop; no pointer, no Read
RECURSIVE engineReadAll(_, _, _)
engineReadAll(ctxs, id, pointers) ==
    IF pointers = <<>> THEN [ok |-> TRUE, contents |-> <<>>]
    ELSE LET content == engineRead(ctxs, id, pointers[1])
             rest == engineReadAll(ctxs, id, Tail(pointers))
         IN  IF ~content.ok \/ ~rest.ok THEN [ok |-> FALSE, contents |-> <<>>]
             ELSE [ok |-> TRUE, contents |-> <<content.bytes>> \o rest.contents]

KeysErr == [ok |-> FALSE, list |-> <<>>]
KeysOk(list) == [ok |-> TRUE, list |-> list]

\* variant of ContentKeys that lists the keys of every kind
engineContentKeysOfAnyKind(ctxs, id, kind) ==
    IF id \notin DOMAIN ctxs THEN KeysErr
    ELSE IF ctxs[id].reference.isNil THEN KeysErr
    ELSE IF ~ctxs[id].reference.hasContentKeys THEN KeysErr
    ELSE KeysOk(ctxs[id].reference.contentKeys)

\* application.ContentKeys(context, kind)
engineContentKeys(ctxs, id, kind) ==
    IF id \notin DOMAIN ctxs THEN KeysErr
    ELSE IF ctxs[id].reference.isNil THEN KeysErr
    ELSE IF ~ctxs[id].reference.hasContentKeys THEN KeysErr
    ELSE LET list == ListByKind(ctxs[id].reference.contentKeys, kind)
         IN  IF list = <<>> THEN KeysErr ELSE KeysOk(list)

\* application.Commits(context)
engineCommits(ctxs, id) ==
    IF id \notin DOMAIN ctxs THEN KeysErr
    ELSE IF ctxs[id].reference.isNil THEN KeysErr
    ELSE KeysOk(ctxs[id].reference.commits)

----------------------------------------------------------------------------
(* Facade *)

\* retrieveActiveContentKeyByHash
retrieveActiveContentKeyByHash(ctxs, id, kind, hash) ==
    LET contentKeys == engineContentKeys(ctxs, id, kind)
    IN  IF ~contentKeys.ok
        THEN [found |-> FALSE, key |-> ContentKey(hash, kind, Pointer(ToUint(0), 0), NoParent)]
        ELSE FetchKey(contentKeys.list, kind, hash)

\* facade Commit(context, hash): the commit of the log with that hash
facadeCommit(ctxs, id, hash) ==
    LET commits == engineCommits(ctxs, id)
    IN  IF ~commits.ok THEN CommitsFetch(<<>>, hash) ELSE CommitsFetch(commits.list, hash)

\* facade Read(context, kind, hash)
facadeRead(ctxs, id, kind, hash) ==
    LET contentKey == retrieveActiveContentKeyByHash(ctxs, id, kind, hash)
    IN  IF ~contentKey.found THEN ReadErr
        ELSE engineRead(ctxs, id, contentKey.key.content)


----------------------------------------------------------------------------
(* Commit: reference update *)

EmptyKeysMap == [h \in {} |-> ContentKey(0, 0, Pointer(ToUint(0), 0), NoParent)]

\* the map of live keys, keyed by the hash alone: a later key of the list
\* replaces an earlier one with the same hash
contentKeysMap(ref) ==
    IF ref.isNil \/ ~ref.hasContentKeys THEN EmptyKeysMap
    ELSE LET keys == ref.contentKeys
         IN  [h \in {keys[i].hash : i \in DOMAIN keys} |->
                keys[CHOOSE i \in DOMAIN keys :
                        /\ keys[i].hash = h
                        /\ \A j \in DOMAIN keys : keys[j].hash = h => j <= i]]

\* variant of remainingKeysMap in which the pending deletes remove nothing
remainingKeysMapKeepingAll(ctx) == contentKeysMap(ctx.reference)

\* the live keys left once the pending deletes are removed, by hash
remainingKeysMap(ctx) ==
    LET map == contentKeysMap(ctx.reference)
        deleted == {ctx.delList[k].hash : k \in DOMAIN ctx.delList}
    IN  [h \in DOMAIN map \ deleted |-> map[h]]

RECURSIVE DataLengthBefore(_, _)
DataLengthBefore(insertList, i) ==
    IF i <= 1 THEN 0
    ELSE Len(insertList[i - 1].data) + DataLengthBefore(insertList, i - 1)

\* the parent given to the commit builder: the hash of the latest commit, none
\* without a reference
latestCommitHash(ref) == IF ref.isNil THEN NoParent ELSE Latest(ref.commits).hash

\* variant of commitsListOf that starts every Commit from an empty log
commitsListEmpty(ref) == <<>>

\* the commits list updateReference appends to: that of the reference, empty
\* without a reference
commitsListOf(ref) == IF ref.isNil THEN <<>> ELSE ref.commits

\* the offset updateReference starts from: Next() of the live keys, 0 without
initialOffset(ref) ==
    IF ~ref.isNil /\ ref.hasContentKeys THEN ContentKeysNext(ref.contentKeys) ELSE 0

\* the running offset once the length of every pending delete is subtracted
offsetAfterDeletes(ctx) ==
    LET order == CHOOSE o \in Orderings(DOMAIN ctx.delList) : TRUE
    IN  initialOffset(ctx.reference)
            - SumLengths([i \in DOMAIN order |-> ctx.delList[order[i]]])

\* the running offset once the length of every pending insert is added
offsetAfterInserts(ctx) ==
    offsetAfterDeletes(ctx) + DataLengthBefore(ctx.insertList, Len(ctx.insertList) + 1)

\* updateReference for one iteration order of delList and one of contentKeysMap;
\* time.Now() reads the same for the two commits of one call
updateReferenceWith(ctx, delOrder, mapOrder) ==
    LET ref == ctx.reference
        commitsList0 == commitsListOf(ref)
        offset0 == initialOffset(ref)
        parent == latestCommitHash(ref)
        delKeys == [i \in DOMAIN delOrder |-> ctx.delList[delOrder[i]]]
        delCommit == Commit(parent,
                            Action("delete", HashTree([i \in DOMAIN delKeys |-> delKeys[i].hash])),
                            Len(commitsList0))
        offset1 == offsetAfterDeletes(ctx)
        commitsList1 == IF DOMAIN ctx.delList # {}
                        THEN Append(commitsList0, delCommit) ELSE commitsList0
        map == remainingKeysMap(ctx)
        kept == [i \in DOMAIN mapOrder |-> map[mapOrder[i]]]
        ins == ctx.insertList
        insCommit == Commit(parent,
                            Action("insert", HashTree([i \in DOMAIN ins |-> ins[i].hash])),
                            Len(commitsList0))
        inserted == [i \in DOMAIN ins |->
                        ContentKey(ins[i].hash, ins[i].kind,
                                   Pointer(ToUint(offset1 + DataLengthBefore(ins, i)),
                                           Len(ins[i].data)),
                                   insCommit.hash)]
        commitsList2 == IF ins # <<>> THEN Append(commitsList1, insCommit) ELSE commitsList1
    IN  Reference(kept \o inserted, commitsList2)

\* updateReference: every reference the call can return
updateReference(ctx) ==
    {updateReferenceWith(ctx, d, m) :
        d \in Orderings(DOMAIN ctx.delList),
        m \in Orderings(DOMAIN remainingKeysMap(ctx))}

\* referenceCommitsBuilder on an empty list: a commit with nothing pending on a
\* database without reference returns without a new reference
NothingToCommit(ctx) ==
    ctx.reference.isNil /\ ctx.insertList = <<>> /\ DOMAIN ctx.delList = {}

----------------------------------------------------------------------------
(* Commit: on-disk rewrite *)

\* the steps of updateDatabaseOnFile, in order
StepNames ==
    <<"destination", "backupCreate", "backupCopy", "backupClose", "sourceClose",
      "sourceRemove", "rename", "backupRemove", "reopen">>

Steps == 1..Len(StepNames)
LockStep == 0                        \* TryLock, before the first step
NoFailure == Len(StepNames) + 1

StepOf(name) == CHOOSE k \in Steps : StepNames[k] = name

\* what goes wrong during one Commit.  step: the step of updateDatabaseOnFile
\* that returns an error (NoFailure: none); read: how much of the file the
\* failing copy had read ("nothing", its "first" byte, "nearly" all of it, that
\* is all but its last byte, or "all"); wrote: how much the failing call had
\* written of what it was to write ("nothing", "short" of the 8-byte prefix or
\* "long", and of these the most or the least, or "all" when the copy wrote
\* what it read and failed on the next read); write: which saveDataOnDisk call
\* of the destination write fails (0: none), after cut bytes
NoFault ==
    [step |-> NoFailure, read |-> "nothing", wrote |-> "nothing", most |-> FALSE,
     write |-> 0, cut |-> 0]

StepFault(k, read, wrote) == [NoFault EXCEPT !.step = k, !.read = read, !.wrote = wrote]

\* the step fault whose cut write stored the most bytes its case allows
AtMost(fault) == [fault EXCEPT !.most = TRUE]

WriteFault(w, cut) == [NoFault EXCEPT !.write = w, !.cut = cut]

\* saveDataOnDisk(offset, data, destination) on the data region of the
\* destination: Seek to offset, then Write
saveDataOnDisk(region, offset, bytes) ==
    LET end == IF Len(region) > offset + Len(bytes) THEN Len(region)
               ELSE offset + Len(bytes)
    IN  [i \in 1..end |->
            IF i > offset /\ i <= offset + Len(bytes) THEN bytes[i - offset] ELSE region[i]]

\* the bytes a failing saveDataOnDisk leaves: none when Seek fails, fewer than
\* all when Write is cut short
cutShort(bytes, cut) ==
    IF cut < Len(bytes) THEN SubSeq(bytes, 1, cut)
    ELSE IF Len(bytes) = 0 THEN <<>>
    ELSE SubSeq(bytes, 1, Len(bytes) - 1)

\* the data region written so far, the write offset in it, and the number of
\* saveDataOnDisk calls made
NothingWritten == [region |-> <<>>, writeOffset |-> 0, calls |-> 0]

\* one saveDataOnDisk call and, when it succeeds, the update of the write offset
saved(out, bytes, fault) ==
    IF out.calls + 1 = fault.write
    THEN [out EXCEPT !.region = saveDataOnDisk(@, out.writeOffset, cutShort(bytes, fault.cut)),
                     !.calls = @ + 1]
    ELSE [region |-> saveDataOnDisk(out.region, out.writeOffset, bytes),
          writeOffset |-> out.writeOffset + Len(bytes),
          calls |-> out.calls + 1]

\* the copy loop over the live keys of the current reference: keys pending
\* deletion are skipped, a failed read ends the loop, and so does a failed write
RECURSIVE copyLiveData(_, _, _, _, _)
copyLiveData(ctx, keys, readOffset, out, fault) ==
    IF keys = <<>> THEN out
    ELSE IF makeToDeleteKeyname(keys[1].kind, keys[1].hash) \in DOMAIN ctx.delList
         THEN copyLiveData(ctx, Tail(keys), readOffset, out, fault)
         ELSE LET newReadOffset == readOffset + ToInt64(keys[1].content.from)
                  read == ReadAt(ctx.pConn, newReadOffset, keys[1].content.length)
              IN  IF ~read.ok THEN out
                  ELSE IF out.calls + 1 = fault.write THEN saved(out, read.bytes, fault)
                  ELSE copyLiveData(ctx, Tail(keys), newReadOffset,
                                    saved(out, read.bytes, fault), fault)

\* whether a ReadAt of the copy loop returns an error, which ends the loop
RECURSIVE copyReadFails(_, _, _)
copyReadFails(ctx, keys, readOffset) ==
    IF keys = <<>> THEN FALSE
    ELSE IF makeToDeleteKeyname(keys[1].kind, keys[1].hash) \in DOMAIN ctx.delList
         THEN copyReadFails(ctx, Tail(keys), readOffset)
         ELSE LET newReadOffset == readOffset + ToInt64(keys[1].content.from)
                  read == ReadAt(ctx.pConn, newReadOffset, keys[1].content.length)
              IN  ~read.ok \/ copyReadFails(ctx, Tail(keys), newReadOffset)

\* the loop over the pending inserts: a failed write ends the loop
RECURSIVE writeInserts(_, _, _)
writeInserts(insertList, out, fault) ==
    IF insertList = <<>> THEN out
    ELSE IF out.calls + 1 = fault.write THEN saved(out, insertList[1].data, fault)
    ELSE writeInserts(Tail(insertList), saved(out, insertList[1].data, fault), fault)

\* the two loops of writeDataAndReferenceOnDestinationFile, one after the other:
\* the insert loop runs also when the copy loop was ended early
dataWritten(ctx, fault) ==
    LET copied == IF ~ctx.reference.isNil /\ ctx.reference.hasContentKeys
                  THEN copyLiveData(ctx, ctx.reference.contentKeys, ctx.dataOffset,
                                    NothingWritten, fault)
                  ELSE NothingWritten
    IN  writeInserts(ctx.insertList, copied, fault)

\* writeDataAndReferenceOnDestinationFile: the destination file it leaves when
\* it returns no error
writeDataAndReferenceOnDestinationFile(ctx, updatedReference, fault) ==
    LET refData == referenceToContent(updatedReference)
    IN  File(refData.ref, dataWritten(ctx, fault).region)

\* the data offset it returns: the bytes written for the reference
writtenAmount(updatedReference) == FileSize(referenceToContent(updatedReference))

\* io.Copy(backup, pConn) copies from the handle's position to the end of the
\* file: all of it from the start, nothing from the end, otherwise its tail
backupCopy(pConn) == Rest(pConn.file, pConn.pos)

\* variant of diskAfterSteps that rewrites the source in place: no destination,
\* no backup, the source torn until the last write is done
diskAfterStepsInPlace(d, ctx, destination, k) ==
    [src |-> IF k >= StepOf("rename") THEN destination
             ELSE IF k >= StepOf("destination") THEN Cut(destination, 0)
             ELSE d.src,
     dst |-> d.dst,
     bck |-> d.bck]

\* variant of diskAfterSteps that never deletes the backup file
diskAfterStepsKeepingBackup(d, ctx, destination, k) ==
    [src |-> IF k >= StepOf("rename") THEN destination
             ELSE IF k >= StepOf("sourceRemove") THEN Missing
             ELSE d.src,
     dst |-> IF k >= StepOf("rename") THEN Missing
             ELSE IF k >= StepOf("destination") THEN destination
             ELSE d.dst,
     bck |-> IF k >= StepOf("backupCopy") THEN backupCopy(ctx.pConn)
             ELSE IF k >= StepOf("backupCreate") THEN EmptyFile
             ELSE d.bck]

\* the files of one database once the first k steps of updateDatabaseOnFile are
\* done, destination being the file the first step leaves
diskAfterSteps(d, ctx, destination, k) ==
    [src |-> IF k >= StepOf("rename") THEN destination
             ELSE IF k >= StepOf("sourceRemove") THEN Missing
             ELSE d.src,
     dst |-> IF k >= StepOf("rename") THEN Missing
             ELSE IF k >= StepOf("destination") THEN destination
             ELSE d.dst,
     bck |-> IF k >= StepOf("backupRemove") THEN Missing
             ELSE IF k >= StepOf("backupCopy") THEN backupCopy(ctx.pConn)
             ELSE IF k >= StepOf("backupCreate") THEN EmptyFile
             ELSE d.bck]

\* the step at which updateDatabaseOnFile returns an error: the injected one,
\* or before it the backup copy when the handle of the context is already
\* closed, or the removal of the source when the source file is missing
failingStep(d, ctx, fault) ==
    IF ctx.pConn.closed /\ fault.step > StepOf("backupCopy") THEN StepOf("backupCopy")
    ELSE IF ~d.src.exists /\ fault.step > StepOf("sourceRemove") THEN StepOf("sourceRemove")
    ELSE fault.step

\* the bytes a failing io.Copy had read, of the remaining ones of the file
readAmount(remaining, read) ==
    IF remaining = 0 \/ read = "nothing" THEN 0
    ELSE IF read = "first" THEN 1
    ELSE IF read = "nearly" THEN remaining - 1
    ELSE remaining

\* the fault as it takes place: at the failing step, a copy that cannot read
\* (closed handle, no byte left to read) reads nothing, and a copy that read
\* nothing wrote nothing
failingFault(d, ctx, fault) ==
    LET k == failingStep(d, ctx, fault)
        copying == k = StepOf("backupCopy")
        amount == readAmount(FileSize(backupCopy(ctx.pConn)), fault.read)
        read == IF k # fault.step THEN "nothing"
                ELSE IF copying /\ (ctx.pConn.closed \/ amount = 0) THEN "nothing"
                ELSE fault.read
        wrote == IF k # fault.step THEN "nothing"
                 ELSE IF copying /\ read = "nothing" THEN "nothing"
                 ELSE fault.wrote
    IN  [fault EXCEPT !.step = k, !.read = read, !.wrote = wrote,
                      !.most = fault.most /\ wrote \in {"short", "long"}]

\* what a write that was cut short leaves of the size bytes it was to store in
\* a file: fewer than the 8 bytes of the prefix ("short") or 8 and more
\* ("long"), the least or the most bytes the case allows, never all of them
cutFile(file, size, wrote, most) ==
    LET rest == size - 1
        prefix == expectedReferenceBytesLength
        least == IF wrote = "long" /\ rest >= prefix THEN prefix ELSE 0
        atMost == IF wrote = "long" \/ rest < prefix THEN rest ELSE prefix - 1
    IN  IF size = 0 THEN file ELSE Cut(file, IF most THEN atMost ELSE least)

\* the backup file a failing io.Copy leaves: of the bytes it read from the
\* handle's position on, none, those written before a write was cut short, or
\* all of them when the next read failed
copyCutShort(pConn, fault) ==
    LET rest == backupCopy(pConn)
        amount == readAmount(FileSize(rest), fault.read)
    IN  IF fault.wrote = "nothing" \/ amount = 0 THEN EmptyFile
        ELSE IF fault.wrote = "all"
        THEN IF amount = FileSize(rest) THEN rest ELSE Cut(rest, amount)
        ELSE cutFile(rest, amount, fault.wrote, fault.most)

\* the files of one database when updateDatabaseOnFile returns an error, fault
\* being the fault as it takes place: the steps before fault.step are done; an
\* os.Create that fails leaves the destination as it was, a Write of the
\* reference cut short leaves a torn destination, a copy that fails a backup
\* of the bytes it wrote
diskAfterFailure(d, ctx, destination, fault) ==
    LET k == fault.step
        done == diskAfterSteps(d, ctx, destination, k - 1)
    IN  IF k = StepOf("destination")
        THEN [done EXCEPT !.dst = IF fault.wrote = "nothing" THEN d.dst
                                  ELSE cutFile(destination, HeaderSize(destination),
                                               fault.wrote, fault.most)]
        ELSE IF k = StepOf("backupCopy")
        THEN [done EXCEPT !.bck = copyCutShort(ctx.pConn, fault)]
        ELSE done

\* the position of the handle once a failing io.Copy has read from it
positionAfter(pConn, read) ==
    pConn.pos + readAmount(FileSize(backupCopy(pConn)), read)

\* the handle of the context after a commit that failed, fault being the fault
\* as it took place: closed from the step that closes it on, its position where
\* the copy of the backup left it, the end of the file once the copy was done
handleAfterFailure(pConn, fault) ==
    [pConn EXCEPT !.closed = pConn.closed \/ fault.step >= StepOf("sourceClose"),
                  !.pos = IF fault.step > StepOf("backupCopy") THEN FileSize(pConn.file)
                          ELSE IF fault.step = StepOf("backupCopy")
                          THEN positionAfter(pConn, fault.read)
                          ELSE pConn.pos]

\* the holders of the lock of a path: nobody, the committing context of this
\* application, a committer of another process
Free == "free"
Self == "self"
Other == "other"

\* no updateDatabaseOnFile call is in progress
NoRewrite ==
    [active |-> FALSE, ctx |-> 0, reference |-> NilReference, fault |-> NoFault,
     done |-> 0, files |-> [src |-> Missing, dst |-> Missing, bck |-> Missing]]

\* an updateDatabaseOnFile call that took the lock: the context, the reference
\* to write, the fault it will meet, the steps done, the files it started from
Rewrite(id, updatedReference, fault, files) ==
    [active |-> TRUE, ctx |-> id, reference |-> updatedReference, fault |-> fault,
     done |-> 0, files |-> files]

----------------------------------------------------------------------------
(* Open: chunked read of the reference *)

\* app.readChunkSize: the read chunk size the application is built with
appReadChunkSize == 1000000

\* makeChunkSize: the configured chunk size, capped by the length to read
makeChunkSize(readChunkSize, length) ==
    IF readChunkSize > length THEN length ELSE readChunkSize

\* no reference is being read
NotReading ==
    [status |-> "idle", length |-> 0, readChunkSize |-> 0, chunkSize |-> 0,
     amount |-> 0, lastChunkSize |-> 0, i |-> 0, offset |-> 0, sizes |-> <<>>]

\* retrieveReference once the 8-byte prefix is decoded: refLength bytes are to
\* be read from offset 8, with the chunk size the application was built with
StartReading(refLength, readChunkSize) ==
    [NotReading EXCEPT !.status = "start", !.length = refLength,
                       !.readChunkSize = readChunkSize,
                       !.offset = expectedReferenceBytesLength]

\* the sum of the sizes of the reads made so far
RECURSIVE SumSizes(_)
SumSizes(sizes) == IF sizes = <<>> THEN 0 ELSE sizes[1] + SumSizes(Tail(sizes))

----------------------------------------------------------------------------
(* History *)

\* data: the payload committed and not erased (none: <<>>); twice: the key was
\* once written while live or twice in one batch; erased: an erasure of the key
\* was committed
NeverWritten == [data |-> <<>>, twice |-> FALSE, erased |-> FALSE]

\* what a successful commit of ctx makes of the committed payloads
CommittedAfter(old, ctx) ==
    [key \in Keys |->
        LET writes == SelectSeq(ctx.insertList, LAMBDA c : <<c.kind, c.hash>> = key)
            base == IF key \in DOMAIN ctx.delList
                    THEN [data |-> <<>>, twice |-> old[key].twice, erased |-> TRUE]
                    ELSE old[key]
        IN  IF writes = <<>> THEN base
            ELSE [data |-> writes[Len(writes)].data,
                  twice |-> base.twice \/ base.data # <<>> \/ Len(writes) > 1,
                  erased |-> base.erased]]

LiveKeys(ref) == {<<ref.contentKeys[i].kind, ref.contentKeys[i].hash>> : i \in DOMAIN ref.contentKeys}

\* what every facade Read of a context returns, and its commit list
Snapshot(ctxs, id) ==
    [reads |-> [key \in Keys |-> facadeRead(ctxs, id, key[1], key[2])],
     commits |-> ctxs[id].reference.commits]

NoSnapshot == [reads |-> [key \in Keys |-> ReadErr], commits |-> <<>>]

LastInit ==
    [op |-> "Init", res |-> "ok", name |-> "a", ctx |-> 0, kind |-> 0, hash |-> 0,
     data |-> <<>>, step |-> 0, batch |-> <<>>, dels |-> {}, liveBefore |-> {},
     pre |-> Missing, post |-> Missing, snap |-> NoSnapshot, reopened |-> FALSE,
     dirty |-> FALSE, again |-> FALSE]

Did(op, res, name, id) ==
    [LastInit EXCEPT !.op = op, !.res = res, !.name = name, !.ctx = id]

\* the process runs: it neither crashed nor ended on a run-time fault
Running == last.op # "Crash" /\ last.res # "panic"

\* what an operation given an identifier that is not in app.contexts records
DidUnknown(op, id) == Did(op, "err", LastInit.name, id)

----------------------------------------------------------------------------
(* Engine operations *)

Init ==
    /\ contexts = NoContexts
    /\ orphans = {}
    /\ disk = [n \in Names |-> [src |-> EmptyFile, dst |-> Missing, bck |-> Missing]]
    /\ committed = [n \in Names |-> [key \in Keys |-> NeverWritten]]
    /\ failures = 0
    /\ fileLocks = [n \in Names |-> Free]
    /\ rewrite = NoRewrite
    /\ reading = NotReading
    /\ removals = 0
    /\ last = LastInit

\* Exists(name): whether the path of the database is a file
Exists(d, name) == d[name].src.exists

\* New(name): refused when the path exists, otherwise os.Create makes an empty
\* file of it
New(name) ==
    /\ Running
    /\ IF Exists(disk, name)
       THEN /\ disk' = disk
            /\ last' = Did("New", "err", name, 0)
       ELSE /\ disk' = [disk EXCEPT ![name].src = EmptyFile]
            /\ last' = Did("New", "ok", name, 0)
    /\ UNCHANGED <<contexts, orphans, committed, failures, fileLocks, rewrite, reading, removals>>

\* what the removal of the database makes of the committed payloads
CommittedAfterDelete(old) ==
    [key \in Keys |-> [old[key] EXCEPT !.data = <<>>,
                                       !.twice = old[key].twice \/ old[key].data # <<>>]]

\* Delete(name): os.Stat fails on a missing path, otherwise os.Remove unlinks the
\* file; the handles open on it keep the inode
Delete(name) ==
    /\ Running
    /\ IF ~Exists(disk, name)
       THEN /\ disk' = disk
            /\ committed' = committed
            /\ removals' = removals
            /\ last' = Did("Delete", "err", name, 0)
       ELSE /\ disk' = [disk EXCEPT ![name].src = Missing]
            /\ committed' = [committed EXCEPT ![name] = CommittedAfterDelete(@)]
            /\ removals' = removals + 1
            /\ last' = [Did("Delete", "ok", name, 0) EXCEPT !.pre = disk[name].src]
    /\ UNCHANGED <<contexts, orphans, failures, fileLocks, rewrite, reading>>

\* what retrieveReference returns: an error, or a reference (none for a file
\* without prefix) and the data offset; fault: the call ended on a run-time fault
Retrieved(reference, offset) ==
    [err |-> FALSE, fault |-> FALSE, reference |-> reference, offset |-> offset]

RetrieveErr == [err |-> TRUE, fault |-> FALSE, reference |-> NilReference, offset |-> 0]

RetrieveFault == [err |-> FALSE, fault |-> TRUE, reference |-> NilReference, offset |-> 0]

\* variant of retrieveReference whose data offset leaves out the length prefix
retrieveReferenceNoPrefix(file) ==
    IF ~file.exists THEN RetrieveErr
    ELSE IF ~ReadAt(Handle(file), 0, expectedReferenceBytesLength).ok
    THEN Retrieved(NilReference, 0)
    ELSE Retrieved(ToReference(file.ref), RefLen(file.ref))

\* retrieveReference: os.Open fails on a missing file; a file of fewer than 8
\* bytes has no reference; otherwise the reference is read in amount chunks from
\* offset 8 on, a chunk size of 0 is a division by zero, and a read that meets
\* the end of the file is an error.  The rest of a file (skip > 0) lies at the
\* backup path only, which no operation opens: its first 8 bytes announce no
\* stored reference, and it is taken here as a file that cannot be decoded
retrieveReference(file) ==
    IF ~file.exists THEN RetrieveErr
    ELSE IF ~ReadAt(Handle(file), 0, expectedReferenceBytesLength).ok
    THEN Retrieved(NilReference, 0)
    ELSE IF file.skip > 0 THEN RetrieveErr
    ELSE LET refLength == RefLen(file.ref)
             chunkSize == makeChunkSize(appReadChunkSize, refLength)
             amount == (refLength \div chunkSize) + 1
             lastChunkSize == refLength - (chunkSize * (amount - 1))
             offset == expectedReferenceBytesLength
                            + (chunkSize * (amount - 1)) + lastChunkSize
         IN  IF chunkSize = 0 THEN RetrieveFault
             ELSE IF ~ReadAt(Handle(file), expectedReferenceBytesLength, refLength).ok
             THEN RetrieveErr
             ELSE Retrieved(ToReference(file.ref), offset)

OpenRefused(ctxs, name) == \E i \in DOMAIN ctxs : ctxs[i].name = name

\* the identifier Open gives the new context
NewIdentifier(ctxs) == Cardinality(DOMAIN ctxs)

\* Open(name)
Open(name) ==
    LET got == retrieveReference(disk[name].src)
        id == NewIdentifier(contexts)
        after == last.op = "Close" /\ last.res = "ok" /\ last.name = name
    IN  /\ Running
        /\ IF OpenRefused(contexts, name) \/ got.err
           THEN /\ contexts' = contexts
                /\ orphans' = orphans
                /\ last' = Did("Open", "err", name, 0)
           ELSE IF got.fault
           THEN /\ contexts' = NoContexts
                /\ orphans' = {}
                /\ last' = Did("Open", "panic", name, 0)
           ELSE /\ contexts' = PutContext(contexts, id,
                        Context(name, Handle(disk[name].src), got.reference, got.offset))
                /\ orphans' = IF id \in DOMAIN contexts
                              THEN orphans \cup {contexts[id].name} ELSE orphans
                /\ last' = [Did("Open", "ok", name, id) EXCEPT
                                !.reopened = after,
                                !.dirty = after /\ last.dirty,
                                !.snap = IF after THEN last.snap ELSE NoSnapshot]
        /\ UNCHANGED <<disk, committed, failures, fileLocks, rewrite, reading, removals>>

\* variant of Close that appends the pending payloads to the source file
CloseFlushing(id) ==
    /\ Running
    /\ id \in DOMAIN contexts
    /\ ~contexts[id].pConn.closed
    /\ contexts' = DropContext(contexts, id)
    /\ disk' = [disk EXCEPT ![contexts[id].name].src.data =
                    @ \o Concat([i \in DOMAIN contexts[id].insertList |->
                                    contexts[id].insertList[i].data])]
    /\ last' = [Did("Close", "ok", contexts[id].name, id) EXCEPT
                    !.snap = Snapshot(contexts, id),
                    !.dirty = Pending(contexts[id]) > 0]
    /\ UNCHANGED <<orphans, committed, failures, fileLocks, rewrite, reading, removals>>

\* Close(context)
Close(id) ==
    /\ Running
    /\ IF id \notin DOMAIN contexts
       THEN /\ contexts' = contexts
            /\ last' = DidUnknown("Close", id)
       ELSE IF contexts[id].pConn.closed
       THEN /\ contexts' = contexts
            /\ last' = Did("Close", "err", contexts[id].name, id)
       ELSE /\ contexts' = DropContext(contexts, id)
            /\ last' = [Did("Close", "ok", contexts[id].name, id) EXCEPT
                            !.snap = Snapshot(contexts, id),
                            !.dirty = Pending(contexts[id]) > 0]
    /\ UNCHANGED <<orphans, disk, committed, failures, fileLocks, rewrite, reading, removals>>

\* variant of Write that also drops the reference of the context
WriteDroppingReference(id, kind, hash, data) ==
    /\ Running
    /\ id \in DOMAIN contexts
    /\ contexts' = [contexts EXCEPT ![id].insertList = Append(@, Content(hash, kind, data)),
                                     ![id].reference = NilReference]
    /\ last' = [Did("Write", "ok", contexts[id].name, id) EXCEPT
                    !.kind = kind, !.hash = hash, !.data = data]
    /\ UNCHANGED <<orphans, disk, committed, failures, fileLocks, rewrite, reading, removals>>

\* Write(context, kind, hash, data)
Write(id, kind, hash, data) ==
    /\ Running
    /\ IF id \notin DOMAIN contexts
       THEN /\ contexts' = contexts
            /\ last' = [DidUnknown("Write", id) EXCEPT
                            !.kind = kind, !.hash = hash, !.data = data]
       ELSE /\ contexts' = [contexts EXCEPT
                                ![id].insertList = Append(@, Content(hash, kind, data))]
            /\ last' = [Did("Write", "ok", contexts[id].name, id) EXCEPT
                            !.kind = kind, !.hash = hash, !.data = data]
    /\ UNCHANGED <<orphans, disk, committed, failures, fileLocks, rewrite, reading, removals>>

\* variant of engine Erase that removes the key from the reference at once
engineEraseAtOnce(ctx, contentKey) ==
    [ctx EXCEPT !.reference.contentKeys =
        SelectSeq(@, LAMBDA ck : ck.kind # contentKey.kind \/ ck.hash # contentKey.hash)]

\* variant of engine Erase that adds an entry for every call: a key already
\* pending is stored once more, under a keyname of its own
engineEraseAppending(ctx, contentKey) ==
    LET keyname == makeToDeleteKeyname(contentKey.kind, contentKey.hash)
        again == <<contentKey.kind + Cardinality(Kinds) * Cardinality(DOMAIN ctx.delList),
                   contentKey.hash>>
        stored == IF keyname \in DOMAIN ctx.delList THEN again ELSE keyname
    IN  [ctx EXCEPT !.delList =
            [k \in DOMAIN ctx.delList \cup {stored} |->
                IF k = stored THEN contentKey ELSE ctx.delList[k]]]

\* engine Erase(context, contentKey): the key is stored under its keyname
engineErase(ctx, contentKey) ==
    LET keyname == makeToDeleteKeyname(contentKey.kind, contentKey.hash)
    IN  [ctx EXCEPT !.delList =
            [k \in DOMAIN ctx.delList \cup {keyname} |->
                IF k = keyname THEN contentKey ELSE ctx.delList[k]]]

\* variant of facade Erase that hands the key to the engine without resolving
\* it among the live keys
EraseUnresolved(id, kind, hash) ==
    LET contentKey == retrieveActiveContentKeyByHash(contexts, id, kind, hash)
    IN  /\ Running
        /\ IF id \notin DOMAIN contexts
           THEN /\ contexts' = contexts
                /\ last' = [DidUnknown("Erase", id) EXCEPT !.kind = kind, !.hash = hash]
           ELSE /\ contexts' = [contexts EXCEPT ![id] = engineErase(@, contentKey.key)]
                /\ last' = [Did("Erase", "ok", contexts[id].name, id) EXCEPT
                                !.kind = kind, !.hash = hash,
                                !.dels = DOMAIN contexts[id].delList]
        /\ UNCHANGED <<orphans, disk, committed, failures, fileLocks, rewrite, reading, removals>>

\* facade Erase(context, kind, hash)
Erase(id, kind, hash) ==
    LET contentKey == retrieveActiveContentKeyByHash(contexts, id, kind, hash)
    IN  /\ Running
        /\ IF id \notin DOMAIN contexts
           THEN /\ contexts' = contexts
                /\ last' = [DidUnknown("Erase", id) EXCEPT !.kind = kind, !.hash = hash]
           ELSE IF contentKey.found
           THEN /\ contexts' = [contexts EXCEPT ![id] = engineErase(@, contentKey.key)]
                /\ last' = [Did("Erase", "ok", contexts[id].name, id) EXCEPT
                                !.kind = kind, !.hash = hash,
                                !.dels = DOMAIN contexts[id].delList,
                                !.again = contentKey.key \in Range(contexts[id].delList)]
           ELSE /\ contexts' = contexts
                /\ last' = [Did("Erase", "err", contexts[id].name, id) EXCEPT
                                !.kind = kind, !.hash = hash]
        /\ UNCHANGED <<orphans, disk, committed, failures, fileLocks, rewrite, reading, removals>>

\* engine Erase(context, contentKey), called with a key of the caller's making:
\* the engine looks the context up and stores the key, in the reference or not
EngineErase(id, contentKey) ==
    /\ Running
    /\ IF id \notin DOMAIN contexts
       THEN /\ contexts' = contexts
            /\ last' = [DidUnknown("EngineErase", id) EXCEPT
                            !.kind = contentKey.kind, !.hash = contentKey.hash]
       ELSE /\ contexts' = [contexts EXCEPT ![id] = engineErase(@, contentKey)]
            /\ last' = [Did("EngineErase", "ok", contexts[id].name, id) EXCEPT
                            !.kind = contentKey.kind, !.hash = contentKey.hash,
                            !.dels = DOMAIN contexts[id].delList]
    /\ UNCHANGED <<orphans, disk, committed, failures, fileLocks, rewrite, reading, removals>>

\* variant of Cancel that empties the buffers of the context
CancelClearing(id) ==
    /\ Running
    /\ last' = IF id \in DOMAIN contexts
               THEN Did("Cancel", "ok", contexts[id].name, id)
               ELSE DidUnknown("Cancel", id)
    /\ contexts' = [i \in DOMAIN contexts |->
                        IF i = id
                        THEN [contexts[i] EXCEPT !.insertList = <<>>, !.delList = EmptyDelList]
                        ELSE contexts[i]]
    /\ UNCHANGED <<orphans, disk, committed, failures, fileLocks, rewrite, reading, removals>>

\* Cancel(context): keeps the context as it is
Cancel(id) ==
    /\ Running
    /\ last' = IF id \in DOMAIN contexts
               THEN Did("Cancel", "ok", contexts[id].name, id)
               ELSE DidUnknown("Cancel", id)
    /\ UNCHANGED <<contexts, orphans, disk, committed, failures, fileLocks, rewrite, reading, removals>>

\* what Commit records of the batch it was given
DidCommit(res, id, step) ==
    [Did("Commit", res, contexts[id].name, id) EXCEPT
        !.step = step,
        !.batch = contexts[id].insertList,
        !.dels = DOMAIN contexts[id].delList,
        !.liveBefore = LiveKeys(contexts[id].reference),
        !.pre = IF res = "ok" THEN Missing ELSE disk[contexts[id].name].src]

\* Commit(context), with updatedReference one of the references updateReference
\* can return and f the fault injected into updateDatabaseOnFile (NoFault: none)
CommitContext(id, updatedReference, f) ==
    LET ctx == contexts[id]
        name == ctx.name
        fault == failingFault(disk[name], ctx, f)
        k == fault.step
        destination == writeDataAndReferenceOnDestinationFile(ctx, updatedReference, f)
    IN  /\ Running
        /\ orphans' = orphans
        /\ UNCHANGED <<fileLocks, rewrite, reading, removals>>
        /\ id \in DOMAIN contexts => updatedReference \in updateReference(ctx)
        /\ IF id \notin DOMAIN contexts
           THEN /\ f = NoFault
                /\ updatedReference = NilReference
                /\ UNCHANGED <<contexts, disk, committed, failures, fileLocks, rewrite, reading, removals>>
                /\ last' = DidUnknown("Commit", id)
           ELSE IF NothingToCommit(ctx)
           THEN /\ f = NoFault
                /\ UNCHANGED <<contexts, disk, committed, failures, fileLocks, rewrite, reading, removals>>
                /\ last' = DidCommit("ok", id, NoFailure)
           ELSE /\ f.write <= dataWritten(ctx, NoFault).calls
                /\ failures' = IF f # NoFault THEN failures + 1 ELSE failures
                /\ IF k # NoFailure
                   THEN /\ contexts' = [contexts EXCEPT ![id].pConn = handleAfterFailure(@, fault)]
                        /\ disk' = [disk EXCEPT ![name] =
                                        diskAfterFailure(@, ctx, destination, fault)]
                        /\ last' = DidCommit("err", id, k)
                        /\ UNCHANGED committed
                   ELSE /\ disk' = [disk EXCEPT ![name] =
                                        diskAfterSteps(@, ctx, destination, Len(StepNames))]
                        /\ contexts' = [contexts EXCEPT ![id] =
                                Context(name, Handle(destination),
                                        updatedReference, writtenAmount(updatedReference))]
                        /\ committed' = [committed EXCEPT ![name] = CommittedAfter(@, ctx)]
                        /\ last' = DidCommit("ok", id, NoFailure)

\* the process stops after step k of updateDatabaseOnFile, every step up to k
\* done without error; the history keeps the source file as it was and as a
\* Commit that runs to its end leaves it
Crash(id, updatedReference, k) ==
    LET ctx == contexts[id]
        name == ctx.name
        destination == writeDataAndReferenceOnDestinationFile(ctx, updatedReference, NoFault)
    IN  /\ Running
        /\ id \in DOMAIN contexts
        /\ ~NothingToCommit(ctx)
        /\ k < failingStep(disk[name], ctx, NoFault)
        /\ updatedReference \in updateReference(ctx)
        /\ disk' = [disk EXCEPT ![name] = diskAfterSteps(@, ctx, destination, k)]
        /\ contexts' = NoContexts
        /\ orphans' = {}
        /\ UNCHANGED <<committed, failures, fileLocks, rewrite, reading, removals>>
        /\ last' = [Did("Crash", "err", name, id) EXCEPT
                        !.step = k,
                        !.pre = disk[name].src,
                        !.post = diskAfterSteps(disk[name], ctx, destination,
                                                Len(StepNames)).src]

----------------------------------------------------------------------------
(* Commit, step by step, with other committers *)

\* variant of CommitBegin that starts the rewrite without looking at the lock
\* and without taking it
CommitBeginWithoutLock(id, updatedReference, f) ==
    LET ctx == contexts[id]
        name == ctx.name
    IN  /\ Running
        /\ ~rewrite.active
        /\ id \in DOMAIN contexts
        /\ ~NothingToCommit(ctx)
        /\ updatedReference \in updateReference(ctx)
        /\ f.write <= dataWritten(ctx, NoFault).calls
        /\ fileLocks' = fileLocks
        /\ rewrite' = Rewrite(id, updatedReference, failingFault(disk[name], ctx, f), disk[name])
        /\ failures' = IF f # NoFault THEN failures + 1 ELSE failures
        /\ last' = Did("TryLock", "ok", name, id)
        /\ UNCHANGED <<contexts, orphans, disk, committed, reading, removals>>

\* Commit(context) up to TryLock: with the lock held elsewhere Commit returns
\* the error at once, otherwise the lock is taken and the rewrite starts; f is
\* the fault injected into the rewrite (NoFault: none)
CommitBegin(id, updatedReference, f) ==
    LET ctx == contexts[id]
        name == ctx.name
    IN  /\ Running
        /\ ~rewrite.active
        /\ id \in DOMAIN contexts
        /\ ~NothingToCommit(ctx)
        /\ updatedReference \in updateReference(ctx)
        /\ f.write <= dataWritten(ctx, NoFault).calls
        /\ IF fileLocks[name] # Free
           THEN /\ last' = DidCommit("err", id, LockStep)
                /\ UNCHANGED <<fileLocks, rewrite, failures>>
           ELSE /\ fileLocks' = [fileLocks EXCEPT ![name] = Self]
                /\ rewrite' = Rewrite(id, updatedReference, failingFault(disk[name], ctx, f),
                                      disk[name])
                /\ failures' = IF f # NoFault THEN failures + 1 ELSE failures
                /\ last' = Did("TryLock", "ok", name, id)
        /\ UNCHANGED <<contexts, orphans, disk, committed, reading, removals>>

\* the next step of updateDatabaseOnFile succeeds
RewriteStep ==
    LET id == rewrite.ctx
        name == contexts[id].name
        destination == writeDataAndReferenceOnDestinationFile(contexts[id], rewrite.reference,
                                                              rewrite.fault)
    IN  /\ rewrite.active
        /\ rewrite.done < Len(StepNames)
        /\ rewrite.done + 1 # rewrite.fault.step
        /\ disk' = [disk EXCEPT ![name] =
                        diskAfterSteps(rewrite.files, contexts[id], destination,
                                       rewrite.done + 1)]
        /\ rewrite' = [rewrite EXCEPT !.done = @ + 1]
        /\ last' = [Did("Rewrite", "ok", name, id) EXCEPT !.step = rewrite.done + 1]
        /\ UNCHANGED <<contexts, orphans, committed, failures, fileLocks, reading, removals>>

\* updateDatabaseOnFile returns, after its last step or at the step that
\* fails: the deferred Unlock runs, and Commit updates the context on success
CommitReturn ==
    LET id == rewrite.ctx
        ctx == contexts[id]
        name == ctx.name
        k == rewrite.fault.step
        destination == writeDataAndReferenceOnDestinationFile(ctx, rewrite.reference,
                                                              rewrite.fault)
    IN  /\ rewrite.active
        /\ rewrite.done = Len(StepNames) \/ rewrite.done + 1 = k
        /\ fileLocks' = [fileLocks EXCEPT ![name] = Free]
        /\ rewrite' = NoRewrite
        /\ IF rewrite.done = Len(StepNames)
           THEN /\ contexts' = [contexts EXCEPT ![id] =
                        Context(name, Handle(destination),
                                rewrite.reference, writtenAmount(rewrite.reference))]
                /\ committed' = [committed EXCEPT ![name] = CommittedAfter(@, ctx)]
                /\ disk' = disk
                /\ last' = DidCommit("ok", id, NoFailure)
           ELSE /\ contexts' = [contexts EXCEPT ![id].pConn = handleAfterFailure(@, rewrite.fault)]
                /\ disk' = [disk EXCEPT ![name] =
                                diskAfterFailure(rewrite.files, ctx, destination, rewrite.fault)]
                /\ last' = [DidCommit("err", id, k) EXCEPT !.pre = rewrite.files.src]
                /\ UNCHANGED committed
        /\ UNCHANGED <<orphans, failures, reading, removals>>

\* a committer of another process takes the lock of a database: TryLock
\* succeeds only on a lock nobody holds
TryLockByOther(name) ==
    /\ fileLocks[name] = Free
    /\ fileLocks' = [fileLocks EXCEPT ![name] = Other]
    /\ last' = Did("TryLockByOther", "ok", name, 0)
    /\ UNCHANGED <<contexts, orphans, disk, committed, failures, rewrite, reading, removals>>

\* the committer of the other process releases the lock
UnlockByOther(name) ==
    /\ fileLocks[name] = Other
    /\ fileLocks' = [fileLocks EXCEPT ![name] = Free]
    /\ last' = Did("UnlockByOther", "ok", name, 0)
    /\ UNCHANGED <<contexts, orphans, disk, committed, failures, rewrite, reading, removals>>

----------------------------------------------------------------------------
(* Open: the read loop of retrieveReference, step by step *)

\* chunkSize, amount and lastChunkSize are computed; the integer division by a
\* chunk size of 0 is a run-time fault
ChunkSetup ==
    LET chunkSize == makeChunkSize(reading.readChunkSize, reading.length)
        amount == (reading.length \div chunkSize) + 1
    IN  /\ reading.status = "start"
        /\ reading' = IF chunkSize = 0
                      THEN [reading EXCEPT !.status = "fault"]
                      ELSE [reading EXCEPT
                                !.status = "loop",
                                !.chunkSize = chunkSize,
                                !.amount = amount,
                                !.lastChunkSize = reading.length - (chunkSize * (amount - 1))]
        /\ UNCHANGED <<contexts, orphans, disk, committed, failures, fileLocks, rewrite, removals, last>>

\* one iteration of the loop: a ReadAt of readSize bytes at offset, on a file
\* that holds the whole reference
ChunkRead ==
    LET readSize == IF reading.i + 1 >= reading.amount
                    THEN reading.lastChunkSize ELSE reading.chunkSize
    IN  /\ reading.status = "loop"
        /\ reading.i < reading.amount
        /\ reading' = [reading EXCEPT !.i = @ + 1,
                                      !.offset = @ + readSize,
                                      !.sizes = Append(@, readSize)]
        /\ UNCHANGED <<contexts, orphans, disk, committed, failures, fileLocks, rewrite, removals, last>>

\* the loop is over: the offset is returned as the data offset
ChunkDone ==
    /\ reading.status = "loop"
    /\ reading.i >= reading.amount
    /\ reading' = [reading EXCEPT !.status = "done"]
    /\ UNCHANGED <<contexts, orphans, disk, committed, failures, fileLocks, rewrite, removals, last>>

----------------------------------------------------------------------------
(* Specifications *)

\* how a failing step can go: the destination write and the backup copy can
\* fail before writing or after a write cut short; the copy can fail after
\* reading the first byte, nearly all or all of the file, also on a read once
\* all it had read was written, and writes nothing when it read nothing
Reads == {"first", "nearly", "all"}
Writes == {"short", "long"}

\* the faults of a call that was cut short, with the least and the most bytes
CutShort(k, read) ==
    {StepFault(k, read, w) : w \in Writes} \cup {AtMost(StepFault(k, read, w)) : w \in Writes}

StepFaults ==
    {StepFault(k, "nothing", "nothing") : k \in Steps}
        \cup CutShort(StepOf("destination"), "nothing")
        \cup {StepFault(StepOf("backupCopy"), r, w) : r \in Reads, w \in {"nothing", "all"}}
        \cup UNION {CutShort(StepOf("backupCopy"), r) : r \in Reads}

\* a saveDataOnDisk call of the destination write that fails
WriteFaults(maxWrites) == {WriteFault(w, cut) : w \in 1..maxWrites, cut \in 0..1}

LockFault == StepFault(LockStep, "nothing", "nothing")

\* the keys handed to engine Erase directly: per (kind, hash) one of an empty
\* payload and one of a payload of one byte, taken from no reference
EngineKeys ==
    {ContentKey(key[2], key[1], Pointer(ToUint(0), length), NoParent) :
        key \in Keys, length \in {0, 1}}

\* room for one more buffered change (ins more writes, del more erasures) and
\* in the log for the commits that publish the batch
Room(id, ins, del, maxPending, maxCommits) ==
    /\ id \in DOMAIN contexts
    /\ Pending(contexts[id]) < maxPending
    /\ Len(contexts[id].reference.commits)
         + (IF Len(contexts[id].insertList) + ins > 0 THEN 1 ELSE 0)
         + (IF Cardinality(DOMAIN contexts[id].delList) + del > 0 THEN 1 ELSE 0)
         <= maxCommits

Fits(updatedReference, maxCommits) == Len(updatedReference.commits) <= maxCommits

Live(id, kind, hash) == retrieveActiveContentKeyByHash(contexts, id, kind, hash).found

\* the commit log of the context is shorter than the bound: a behaviour ends
\* when the log is full
Short(id, maxCommits) ==
    id \in DOMAIN contexts /\ Len(contexts[id].reference.commits) < maxCommits

\* one database, operations that succeed
Next ==
    \/ \E n \in DeepNames : ~OpenRefused(contexts, n) /\ Open(n)
    \/ \E id \in CtxIds : Short(id, MaxCommits) /\ Close(id)
    \/ \E id \in CtxIds, c \in Contents :
            Room(id, 1, 0, MaxPending, MaxCommits) /\ Write(id, c[1], c[2], c[3])
    \/ \E id \in CtxIds, kind \in Kinds, hash \in Hashes :
            /\ Room(id, 0, 1, MaxPending, MaxCommits)
            /\ Live(id, kind, hash)
            /\ Erase(id, kind, hash)
    \/ \E id \in CtxIds, contentKey \in EngineKeys :
            Room(id, 0, 1, MaxPending, MaxCommits) /\ EngineErase(id, contentKey)
    \/ \E id \in DOMAIN contexts :
          \E r \in updateReference(contexts[id]) :
            /\ Short(id, MaxCommits)
            /\ Fits(r, MaxCommits)
            /\ CommitContext(id, r, NoFault)

Spec == Init /\ [][Next]_vars

\* one database, created and deleted, with I/O failures and crashes during
\* Commit; New, Delete and Close are called where they are not refused
NextIO ==
    \/ \E n \in DeepNames : ~Exists(disk, n) /\ New(n)
    \/ \E n \in DeepNames : Exists(disk, n) /\ removals < MaxRemovals /\ Delete(n)
    \/ \E n \in DeepNames : Open(n)
    \/ \E id \in DOMAIN contexts : Close(id)
    \/ \E id \in CtxIds, c \in ContentsIO :
            Room(id, 1, 0, MaxPendingIO, MaxCommitsIO) /\ Write(id, c[1], c[2], c[3])
    \/ \E id \in CtxIds, kind \in Kinds, hash \in Hashes :
            Room(id, 0, 1, MaxPendingIO, MaxCommitsIO) /\ Erase(id, kind, hash)
    \/ \E id \in DOMAIN contexts : \E r \in updateReference(contexts[id]) :
            Fits(r, MaxCommitsIO) /\ CommitContext(id, r, NoFault)
    \/ \E id \in DOMAIN contexts,
          f \in StepFaults \cup {LockFault} \cup WriteFaults(MaxPendingIO + MaxCommitsIO) :
          \E r \in updateReference(contexts[id]) :
            /\ failures < MaxFailures
            /\ Fits(r, MaxCommitsIO)
            /\ CommitContext(id, r, f)
    \/ \E id \in DOMAIN contexts, k \in Steps \ {StepOf("reopen")} :
            \E r \in updateReference(contexts[id]) :
                /\ Fits(r, MaxCommitsIO)
                /\ Crash(id, r, k)

SpecIO == Init /\ [][NextIO]_vars

\* several databases, created, deleted, opened and closed in any interleaving
NextNames ==
    \/ \E n \in Names : New(n)
    \/ \E n \in Names : (Exists(disk, n) => removals < MaxRemovals) /\ Delete(n)
    \/ \E n \in Names : Open(n)
    \/ \E id \in CtxIds : Close(id)
    \/ \E id \in CtxIds, c \in Contents :
            Room(id, 1, 0, MaxPendingNames, MaxCommitsNames) /\ Write(id, c[1], c[2], c[3])
    \/ \E id \in DOMAIN contexts : \E r \in updateReference(contexts[id]) :
            Fits(r, MaxCommitsNames) /\ CommitContext(id, r, NoFault)

SpecNames == Init /\ [][NextNames]_vars

\* several databases, every operation called with every identifier, in the
\* table or not
NextIds ==
    \/ \E n \in Names : Open(n)
    \/ \E id \in CtxIds : Close(id)
    \/ \E id \in CtxIds : Cancel(id)
    \/ \E id \in CtxIds, c \in Contents :
            /\ id \in DOMAIN contexts => Room(id, 1, 0, MaxPendingNames, MaxCommitsNames)
            /\ Write(id, c[1], c[2], c[3])
    \/ \E id \in CtxIds, kind \in Kinds, hash \in Hashes :
            /\ Live(id, kind, hash) => Room(id, 0, 1, MaxPendingNames, MaxCommitsNames)
            /\ Erase(id, kind, hash)
    \/ \E id \in CtxIds, contentKey \in EngineKeys :
            /\ id \in DOMAIN contexts => Room(id, 0, 1, MaxPendingNames, MaxCommitsNames)
            /\ EngineErase(id, contentKey)
    \/ \E id \in DOMAIN contexts :
          \E r \in updateReference(contexts[id]) :
            Fits(r, MaxCommitsNames) /\ CommitContext(id, r, NoFault)
    \/ \E id \in CtxIds \ DOMAIN contexts : CommitContext(id, NilReference, NoFault)

SpecIds == Init /\ [][NextIds]_vars

\* one database, Commit taken step by step while a committer of another
\* process takes and releases the lock
NextLock ==
    \/ \E n \in DeepNames : ~rewrite.active /\ Open(n)
    \/ \E id \in CtxIds, c \in Contents :
            /\ ~rewrite.active
            /\ Room(id, 1, 0, MaxPendingIO, MaxCommitsIO)
            /\ Write(id, c[1], c[2], c[3])
    \/ \E id \in CtxIds, kind \in Kinds, hash \in Hashes :
            /\ ~rewrite.active
            /\ Room(id, 0, 1, MaxPendingIO, MaxCommitsIO)
            /\ Live(id, kind, hash)
            /\ Erase(id, kind, hash)
    \/ \E id \in DOMAIN contexts,
          f \in StepFaults \cup WriteFaults(MaxPendingIO + MaxCommitsIO) \cup {NoFault} :
            \E r \in updateReference(contexts[id]) :
                /\ f # NoFault => failures < MaxFailures
                /\ Fits(r, MaxCommitsIO)
                /\ CommitBegin(id, r, f)
    \/ RewriteStep
    \/ CommitReturn
    \/ \E n \in DeepNames : TryLockByOther(n)
    \/ \E n \in DeepNames : UnlockByOther(n)

SpecLock == Init /\ [][NextLock]_vars

\* the read of a stored reference, for every length and every chunk size
RefLengths == 0..MaxRefLength
ChunkSizes == 0..MaxChunkSize

InitChunks ==
    /\ contexts = NoContexts
    /\ orphans = {}
    /\ disk = [n \in Names |-> [src |-> EmptyFile, dst |-> Missing, bck |-> Missing]]
    /\ committed = [n \in Names |-> [key \in Keys |-> NeverWritten]]
    /\ failures = 0
    /\ fileLocks = [n \in Names |-> Free]
    /\ rewrite = NoRewrite
    /\ removals = 0
    /\ reading \in {StartReading(refLength, readChunkSize) :
                        refLength \in RefLengths, readChunkSize \in ChunkSizes}
    /\ last = LastInit

NextChunks ==
    \/ ChunkSetup
    \/ ChunkRead
    \/ ChunkDone

SpecChunks == InitChunks /\ [][NextChunks]_vars

----------------------------------------------------------------------------
(* Claims *)

\* the last operation was a Commit that returned success
CommitDone == last.op = "Commit" /\ last.res = "ok" /\ last.ctx \in DOMAIN contexts

\* the key of a pending insert
KeyOf(c) == <<c.kind, c.hash>>

\* no key of the database was ever written while live, nor twice in one batch
WrittenOnce(name) == \A key \in Keys : ~committed[name][key].twice

\* C1: after Write(ctx, k, h, d) and a successful Commit(ctx), facade
\* Read(ctx, k, h) returns exactly d, whatever the database already contains
\* (stated for the databases in which no key was ever written twice).
C1_RoundTripRead ==
    (CommitDone /\ WrittenOnce(last.name)) =>
        \A i \in DOMAIN last.batch :
            facadeRead(contexts, last.ctx, last.batch[i].kind, last.batch[i].hash)
                = ReadOk(last.batch[i].data)

\* the keys written by the batch of the last Commit
BatchKeys == {KeyOf(last.batch[i]) : i \in DOMAIN last.batch}

\* the payload the history holds for a key of a database
CommittedData(name, key) == committed[name][key].data

\* C2: every (kind, hash) committed with payload d and not erased by a later
\* commit is readable in every open context of its database and returns d;
\* commits that add or remove other keys never change it (stated for the keys
\* the last Commit did not write, in databases where no key was written twice).
C2_CommittedStaysReadable ==
    \A id \in DOMAIN contexts :
        WrittenOnce(contexts[id].name) =>
            \A key \in Keys :
                (/\ CommittedData(contexts[id].name, key) # <<>>
                 /\ ~(last.op = "Commit" /\ key \in BatchKeys))
                    => facadeRead(contexts, id, key[1], key[2])
                            = ReadOk(CommittedData(contexts[id].name, key))

\* the last operation was a successful Commit whose batch erased key
ErasedByCommit(key) == CommitDone /\ key \in last.dels

\* the key is in the reference of the context of the last operation
InReference(key) == key \in LiveKeys(contexts[last.ctx].reference)

\* C3 (as stated): after facade Erase(ctx, k, h) of a live key and a successful
\* Commit(ctx), facade Read(ctx, k, h) fails and the key is absent from the
\* reference of the context.
C3_EraseRemoves ==
    \A key \in Keys :
        ErasedByCommit(key) =>
            /\ ~facadeRead(contexts, last.ctx, key[1], key[2]).ok
            /\ ~InReference(key)

\* C3 (amended): the same, provided the committed batch holds no Write of (k, h).
C3_EraseRemovesUnlessRewritten ==
    \A key \in Keys :
        (ErasedByCommit(key) /\ key \notin BatchKeys) =>
            /\ ~facadeRead(contexts, last.ctx, key[1], key[2]).ok
            /\ ~InReference(key)

\* a Commit erased a key while another key of the same kind stayed live
C3_Witness ==
    \E key \in Keys :
        /\ ErasedByCommit(key)
        /\ key \notin BatchKeys
        /\ \E other \in Keys : other[1] = key[1] /\ other # key /\ InReference(other)

\* C4: the same hash under two kinds names two independent keys: erasing
\* (k1, h) and committing leaves (k2, h) live and readable with its payload.
C4_KindsIndependent ==
    (CommitDone /\ WrittenOnce(last.name)) =>
        \A k1 \in Kinds, k2 \in Kinds, h \in Hashes :
            (/\ k1 # k2
             /\ <<k1, h>> \in last.dels
             /\ <<k2, h>> \in last.liveBefore \ last.dels)
                => /\ InReference(<<k2, h>>)
                   /\ facadeRead(contexts, last.ctx, k2, h)
                        = ReadOk(CommittedData(last.name, <<k2, h>>))

\* C5: after an erasure of (k, h) was committed, Write(ctx, k, h, d') and
\* Commit(ctx) make facade Read(ctx, k, h) return d', whatever other keys are
\* live (stated for databases where no key was written twice).
C5_ReinsertReads ==
    (CommitDone /\ WrittenOnce(last.name)) =>
        \A i \in DOMAIN last.batch :
            (/\ committed[last.name][KeyOf(last.batch[i])].erased
             /\ KeyOf(last.batch[i]) \notin last.dels)
                => facadeRead(contexts, last.ctx, last.batch[i].kind, last.batch[i].hash)
                        = ReadOk(last.batch[i].data)

\* the last operation opened again the database that was just closed
Reopened == last.op = "Open" /\ last.res = "ok" /\ last.reopened

\* C6: Close followed by Open of the same name preserves the committed state:
\* every facade Read of the new context gives what it gave in the old context
\* right before Close, and the commit list is the same.
C6_ReopenPreserves ==
    Reopened => Snapshot(contexts, last.ctx) = last.snap

\* a database holding a readable key and an erased one was closed and opened again
C6_Witness ==
    /\ Reopened
    /\ \E key \in Keys : last.snap.reads[key].ok
    /\ \E key \in Keys : committed[last.name][key].erased
    /\ Len(last.snap.commits) >= 2

\* C10: Write only appends to the pending insert list of its context: the
\* files, the reference, the data offset, the handle and the pending
\* erasures are unchanged, and every facade Read gives what it gave before.
C10_WriteFrame ==
    [][last'.op = "Write" =>
        /\ disk' = disk
        /\ DOMAIN contexts' = DOMAIN contexts
        /\ \A id \in DOMAIN contexts :
            /\ contexts'[id].reference = contexts[id].reference
            /\ contexts'[id].dataOffset = contexts[id].dataOffset
            /\ contexts'[id].pConn = contexts[id].pConn
            /\ contexts'[id].delList = contexts[id].delList
            /\ contexts'[id].insertList =
                    IF id = last'.ctx
                    THEN Append(contexts[id].insertList,
                                Content(last'.hash, last'.kind, last'.data))
                    ELSE contexts[id].insertList
            /\ \A key \in Keys :
                    facadeRead(contexts', id, key[1], key[2])
                        = facadeRead(contexts, id, key[1], key[2])
    ]_vars

\* a Write of a live key with a new payload: Read still returns the old one
C10_Witness ==
    /\ last.op = "Write"
    /\ last.ctx \in DOMAIN contexts
    /\ facadeRead(contexts, last.ctx, last.kind, last.hash).ok
    /\ facadeRead(contexts, last.ctx, last.kind, last.hash) # ReadOk(last.data)

\* the contexts open on a database: those of the table and the one replaced in it
OpenContexts(name) ==
    Cardinality({id \in DOMAIN contexts : contexts[id].name = name})
        + (IF name \in orphans THEN 1 ELSE 0)

C8_FailedCommitKeepsSource ==
    (/\ last.op = "Commit"
     /\ last.res = "err"
     /\ last.step > StepOf("destination")
     /\ last.step <= StepOf("rename"))
        => disk[last.name].src = last.pre

\* C9: at most one context is open per database name: Open(name) fails while
\* a context for that name is open, leaves the context table unchanged, and
\* succeeds again once that context has been closed.
C9_OneContextPerName ==
    /\ \A n \in Names : OpenContexts(n) <= 1
    /\ (last.op = "Open" /\ last.res = "ok") => last.name \notin orphans

\* the step is an Erase, of the facade or of the engine
ErasePerformed == last'.op \in {"Erase", "EngineErase"}

\* C11: Erase only records the key in the pending delete map of its context:
\* the files, the reference, the data offset, the handle and the pending
\* inserts are unchanged, and every facade Read, that of the erased key
\* included, gives what it gave before.
C11_EraseFrame ==
    [][ErasePerformed =>
        /\ disk' = disk
        /\ DOMAIN contexts' = DOMAIN contexts
        /\ \A id \in DOMAIN contexts :
            /\ contexts'[id].reference = contexts[id].reference
            /\ contexts'[id].dataOffset = contexts[id].dataOffset
            /\ contexts'[id].pConn = contexts[id].pConn
            /\ contexts'[id].insertList = contexts[id].insertList
            /\ DOMAIN contexts'[id].delList =
                    IF id = last'.ctx /\ last'.res = "ok"
                    THEN DOMAIN contexts[id].delList \cup {<<last'.kind, last'.hash>>}
                    ELSE DOMAIN contexts[id].delList
            /\ \A key \in Keys :
                    facadeRead(contexts', id, key[1], key[2])
                        = facadeRead(contexts, id, key[1], key[2])
    ]_vars

\* an Erase of a key whose payload Read still returns
C11_Witness ==
    /\ last.op = "Erase"
    /\ last.res = "ok"
    /\ last.ctx \in DOMAIN contexts
    /\ <<last.kind, last.hash>> \in DOMAIN contexts[last.ctx].delList
    /\ facadeRead(contexts, last.ctx, last.kind, last.hash).ok

\* the step is a Commit of a context of the table with nothing pending
EmptyCommitPerformed ==
    /\ last'.op = "Commit"
    /\ last.op # "Crash"
    /\ last'.ctx \in DOMAIN contexts
    /\ last'.batch = <<>>
    /\ last'.dels = {}

\* C12: Commit on a context with no pending insert and no pending delete
\* returns success and changes nothing: the files, the reference and the data
\* offset of the context are as before.
C12_EmptyCommitChangesNothing ==
    [][EmptyCommitPerformed =>
        /\ last'.res = "ok"
        /\ disk' = disk
        /\ contexts'[last'.ctx].reference = contexts[last'.ctx].reference
        /\ contexts'[last'.ctx].dataOffset = contexts[last'.ctx].dataOffset
    ]_vars

\* the step is a Close
ClosePerformed == last'.op = "Close"

\* C13: Close does not publish pending changes: it leaves the files as they
\* are, and a context opened on the name after a Close that dropped pending
\* changes has empty buffers, the reference of the file, and reads what the
\* closed context read.
C13_CloseDropsPending ==
    /\ [][ClosePerformed => disk' = disk]_vars
    /\ [](Reopened /\ last.dirty =>
            /\ contexts[last.ctx].insertList = <<>>
            /\ DOMAIN contexts[last.ctx].delList = {}
            /\ contexts[last.ctx].reference = retrieveReference(disk[last.name].src).reference
            /\ Snapshot(contexts, last.ctx).reads = last.snap.reads)

\* a database with committed data was closed with changes pending and opened again
C13_Witness ==
    /\ Reopened
    /\ last.dirty
    /\ \E key \in Keys : last.snap.reads[key].ok

\* the inputs of Read, ReadAll and ContentKeys
Pointers == {Pointer(ToUint(0), 0), Pointer(ToUint(0), 1)}
PointerLists == {<<>>, <<Pointer(ToUint(0), 1)>>, <<Pointer(ToUint(0), 0), Pointer(ToUint(0), 1)>>}

\* the operations that change a context
ChangingOps == {"Write", "Erase", "EngineErase", "Cancel", "Commit", "Close"}

\* C14: every engine operation given an identifier that is not in the table
\* of contexts returns an error and changes no context and no file.
C14_UnknownContextRefused ==
    [][/\ \A id \in CtxIds \ DOMAIN contexts :
            /\ \A pointer \in Pointers : ~engineRead(contexts, id, pointer).ok
            /\ \A pointers \in PointerLists : ~engineReadAll(contexts, id, pointers).ok
            /\ \A kind \in Kinds : ~engineContentKeys(contexts, id, kind).ok
            /\ ~engineCommits(contexts, id).ok
       /\ (last'.op \in ChangingOps /\ last'.ctx \notin DOMAIN contexts) =>
            /\ last'.res = "err"
            /\ contexts' = contexts
            /\ disk' = disk
    ]_vars

\* the commit log of an open context
Log(id) == contexts[id].reference.commits

\* C15: in every reference the first commit of the log has no parent, every
\* other commit has one, and each parent is the hash of a commit earlier in
\* the log.
C15_CommitChain ==
    \A id \in DOMAIN contexts :
        \A i \in DOMAIN Log(id) :
            IF i = 1 THEN Log(id)[i].parent = NoParent
            ELSE /\ Log(id)[i].parent # NoParent
                 /\ \E j \in 1..(i - 1) : Log(id)[j].hash = Log(id)[i].parent

\* the keys of one kind in the reference of a context, in order
KeysOfKind(id, kind) ==
    SelectSeq(contexts[id].reference.contentKeys, LAMBDA ck : ck.kind = kind)

\* C16: ContentKeys(ctx, kind) returns an error whenever the reference holds
\* no key of that kind (no reference, or every key erased), and otherwise
\* returns exactly the keys of that kind.
C16_ContentKeysByKind ==
    \A id \in DOMAIN contexts, kind \in Kinds :
        IF KeysOfKind(id, kind) = <<>>
        THEN ~engineContentKeys(contexts, id, kind).ok
        ELSE engineContentKeys(contexts, id, kind) = KeysOk(KeysOfKind(id, kind))

\* a database with keys of one kind only, after an erasure was committed
C16_Witness ==
    \E id \in DOMAIN contexts :
        /\ engineContentKeys(contexts, id, 0).ok
        /\ ~engineContentKeys(contexts, id, 1).ok
        /\ \E key \in Keys : committed[contexts[id].name][key].erased

\* the step is the first Commit of a database, of a single Write and of no
\* Erase
FirstCommitPerformed ==
    /\ last'.op = "Commit"
    /\ last'.res = "ok"
    /\ last.op # "Crash"
    /\ last'.ctx \in DOMAIN contexts
    /\ contexts[last'.ctx].reference.isNil
    /\ Len(last'.batch) = 1
    /\ last'.dels = {}

\* C17: every commit listed by Commits(ctx) is found by its hash and the
\* lookup returns that commit; the hashes of one log are pairwise distinct;
\* one Write and Commit on a fresh database give a log of length 1.
C17_CommitsFetch ==
    /\ [](\A id \in DOMAIN contexts :
            engineCommits(contexts, id).ok =>
                LET list == engineCommits(contexts, id).list
                IN  /\ \A i \in DOMAIN list :
                            facadeCommit(contexts, id, list[i].hash)
                                = [found |-> TRUE, commit |-> list[i]]
                    /\ \A i \in DOMAIN list, j \in DOMAIN list :
                            list[i].hash = list[j].hash => i = j)
    /\ [][FirstCommitPerformed => Len(contexts'[last'.ctx].reference.commits) = 1]_vars

\* a log holding two commits with the same action
C17_Witness ==
    \E id \in DOMAIN contexts :
        \E i \in DOMAIN Log(id), j \in DOMAIN Log(id) :
            i # j /\ Log(id)[i].action = Log(id)[j].action

\* C18: two live keys sharing a hash under different kinds both remain in the
\* reference, each readable with its payload, after a successful Commit that
\* erases neither.
C18_SharedHashSurvives ==
    CommitDone =>
        \A k1 \in Kinds, k2 \in Kinds, h \in Hashes :
            (/\ k1 # k2
             /\ {<<k1, h>>, <<k2, h>>} \subseteq last.liveBefore
             /\ \A key \in last.dels : key[2] # h
             /\ ~committed[last.name][<<k1, h>>].twice
             /\ ~committed[last.name][<<k2, h>>].twice)
                => /\ InReference(<<k1, h>>)
                   /\ InReference(<<k2, h>>)

\* C19: the identifier Open returns is not that of a context of the table: Open
\* never replaces an entry of the table.
C19_FreshIdentifier ==
    [][(last'.op = "Open" /\ last'.res = "ok") =>
            /\ last'.ctx \notin DOMAIN contexts
            /\ \A id \in DOMAIN contexts : contexts'[id] = contexts[id]
    ]_vars

\* C20: in every reference the pair (kind, hash) is unique among the content
\* keys, also when a key is written twice in one batch or written while live.
C20_UniqueKeys ==
    \A id \in DOMAIN contexts :
        LET keys == contexts[id].reference.contentKeys
        IN  \A i \in DOMAIN keys, j \in DOMAIN keys :
                (keys[i].kind = keys[j].kind /\ keys[i].hash = keys[j].hash) => i = j


\* the content keys of the reference of the context of the last operation
LastKeys == contexts[last.ctx].reference.contentKeys

\* C21: after every successful Commit each live content key's pointer lies
\* inside the file: data offset + from + length is at most the size of the
\* database file, also for keys kept while other keys were erased (stated for
\* databases where no key was written twice). A from of 2^63 or more is beyond
\* every file.
C21_PointersInsideFile ==
    (CommitDone /\ WrittenOnce(last.name)) =>
        \A i \in DOMAIN LastKeys :
            /\ ToInt64(LastKeys[i].content.from) >= 0
            /\ contexts[last.ctx].dataOffset + ToInt64(LastKeys[i].content.from)
                    + LastKeys[i].content.length <= FileSize(disk[last.name].src)

\* the step is a successful Commit that produced a reference, in a database
\* where no key was written twice
ReferenceProduced ==
    /\ last'.op = "Commit"
    /\ last'.res = "ok"
    /\ last.op # "Crash"
    /\ last'.ctx \in DOMAIN contexts
    /\ ~NothingToCommit(contexts[last'.ctx])
    /\ \A key \in Keys : ~committed'[last'.name][key].twice

\* C22: in every reference produced by Commit the running offset after the
\* deletes and the inserts, at which the next payload would be placed, is the
\* sum of the pointer lengths of the live keys of that reference, and the
\* offset is never negative during Commit (stated for databases where no key
\* was written twice).
C22_NextIsLiveSum ==
    [][ReferenceProduced =>
        /\ offsetAfterDeletes(contexts[last'.ctx]) >= 0
        /\ offsetAfterInserts(contexts[last'.ctx])
                = SumLengths(contexts'[last'.ctx].reference.contentKeys)
    ]_vars


\* C23: history is a linear chain: in every commit log each commit but the
\* first has as parent the hash of the commit right before it, the two
\* commits made by one Commit call with deletes and inserts included.
C23_LinearChain ==
    \A id \in DOMAIN contexts :
        \A i \in DOMAIN Log(id) :
            i > 1 => Log(id)[i].parent = Log(id)[i - 1].hash

\* the step is a successful Commit of a context of the table
CommitPerformed ==
    /\ last'.op = "Commit"
    /\ last'.res = "ok"
    /\ last.op # "Crash"
    /\ last'.ctx \in DOMAIN contexts

\* the action types of the commits a batch appends: Delete first, then Insert
AppendedActions(batch, dels) ==
    (IF dels # {} THEN <<"delete">> ELSE <<>>) \o (IF batch # <<>> THEN <<"insert">> ELSE <<>>)

\* C24: the commit log is append-only: a successful Commit with only pending
\* deletes or only pending inserts appends exactly one commit, Delete or
\* Insert, a Commit with both appends a Delete commit then an Insert commit,
\* and the commits already in the log stay as an unchanged prefix.
C24_LogAppendOnly ==
    [][CommitPerformed =>
        LET old == contexts[last'.ctx].reference.commits
            new == contexts'[last'.ctx].reference.commits
            added == AppendedActions(last'.batch, last'.dels)
        IN  /\ Len(new) = Len(old) + Len(added)
            /\ SubSeq(new, 1, Len(old)) = old
            /\ \A i \in DOMAIN added : new[Len(old) + i].action.type = added[i]
    ]_vars

\* a Commit with deletes and inserts pending was made on a log holding a commit
C24_Witness ==
    /\ CommitDone
    /\ last.batch # <<>>
    /\ last.dels # {}
    /\ Len(Log(last.ctx)) = 3
    /\ Log(last.ctx)[2].action.type = "delete"
    /\ Log(last.ctx)[3].action.type = "insert"

\* the pending inserts of the last Commit's batch that write key
WritesOf(key) == SelectSeq(last.batch, LAMBDA c : KeyOf(c) = key)

\* the content keys of the last context's reference that carry key
LiveEntries(key) ==
    SelectSeq(LastKeys, LAMBDA ck : <<ck.kind, ck.hash>> = key)

\* C25: deletes apply before inserts within one Commit: when the batch erases
\* a live key (k, h) and also writes (k, h, d'), after the Commit (k, h) is
\* live exactly once and facade Read(ctx, k, h) returns d'.
C25_EraseThenWrite ==
    CommitDone =>
        \A key \in last.dels :
            Len(WritesOf(key)) = 1 =>
                /\ Len(LiveEntries(key)) = 1
                /\ facadeRead(contexts, last.ctx, key[1], key[2])
                        = ReadOk(WritesOf(key)[1].data)

\* the step is an Erase of a live key that is already in the pending delete
\* map: the entry of its keyname is the key that Erase resolves
EraseRepeated ==
    /\ last'.op = "Erase"
    /\ last'.res = "ok"
    /\ last.op # "Crash"
    /\ last'.ctx \in DOMAIN contexts
    /\ <<last'.kind, last'.hash>> \in DOMAIN contexts[last'.ctx].delList
    /\ contexts[last'.ctx].delList[<<last'.kind, last'.hash>>]
            = retrieveActiveContentKeyByHash(contexts, last'.ctx, last'.kind, last'.hash).key

\* C26: Erase is idempotent: an Erase of a live key that is already pending
\* leaves the pending delete map with its one entry for the key, and the
\* Commit that follows produces the reference, the next offset and the file
\* that it produces after a single Erase.
C26_EraseIdempotent ==
    [][EraseRepeated =>
        LET once == contexts[last'.ctx]
            again == contexts'[last'.ctx]
        IN  /\ DOMAIN again.delList = DOMAIN once.delList
            /\ again.delList = once.delList
            /\ updateReference(again) = updateReference(once)
            /\ offsetAfterInserts(again) = offsetAfterInserts(once)
            /\ \A r \in updateReference(once) :
                    writeDataAndReferenceOnDestinationFile(again, r, NoFault)
                        = writeDataAndReferenceOnDestinationFile(once, r, NoFault)
    ]_vars

\* an Erase was called for a key already pending while another key was live
C26_Witness ==
    /\ last.op = "Erase"
    /\ last.res = "ok"
    /\ last.ctx \in DOMAIN contexts
    /\ <<last.kind, last.hash>> \in last.dels
    /\ last.again
    /\ Cardinality(DOMAIN contexts[last.ctx].delList) = 1
    /\ Len(LastKeys) = 2

\* the step is a Cancel of a context of the table
CancelPerformed ==
    /\ last'.op = "Cancel"
    /\ last.op # "Crash"
    /\ last'.ctx \in DOMAIN contexts

\* C27: Cancel on an open context returns success and changes nothing: the
\* pending inserts, the pending deletes, the reference, the data offset and
\* the files are as before, and every reference a Commit issued next can
\* produce holds the keys of the writes buffered before the Cancel.
C27_CancelKeepsBuffers ==
    [][CancelPerformed =>
        LET before == contexts[last'.ctx]
            after == contexts'[last'.ctx]
        IN  /\ last'.res = "ok"
            /\ contexts' = contexts
            /\ disk' = disk
            /\ after.insertList = before.insertList
            /\ after.delList = before.delList
            /\ after.reference = before.reference
            /\ after.dataOffset = before.dataOffset
            /\ \A r \in updateReference(after) :
                    /\ \A i \in DOMAIN before.insertList :
                            KeyOf(before.insertList[i]) \in LiveKeys(r)
                    /\ writeDataAndReferenceOnDestinationFile(after, r, NoFault)
                            = writeDataAndReferenceOnDestinationFile(before, r, NoFault)
    ]_vars

\* a Cancel was called on a context with a write buffered
C27_Witness ==
    /\ last.op = "Cancel"
    /\ last.res = "ok"
    /\ last.ctx \in DOMAIN contexts
    /\ contexts[last.ctx].insertList # <<>>

\* the step is a facade Erase, on a context of the table, of a key that is not
\* in the reference of the context
EraseOfDeadKey ==
    /\ last'.op = "Erase"
    /\ last.op # "Crash"
    /\ last'.ctx \in DOMAIN contexts
    /\ <<last'.kind, last'.hash>> \notin LiveKeys(contexts[last'.ctx].reference)

\* C28: facade Erase(ctx, k, h) returns an error and leaves the pending delete
\* map as it is whenever (k, h) is not a live key of the reference of the
\* context: a key written in the current batch and not yet committed, and a
\* key whose kind has no live entry, included.
C28_EraseOfDeadKeyRefused ==
    [][EraseOfDeadKey =>
        /\ last'.res = "err"
        /\ contexts'[last'.ctx].delList = contexts[last'.ctx].delList
        /\ contexts' = contexts
    ]_vars

\* an Erase was refused for a key that a pending write of the context carries
C28_Witness ==
    /\ last.op = "Erase"
    /\ last.res = "err"
    /\ last.ctx \in DOMAIN contexts
    /\ \E i \in DOMAIN contexts[last.ctx].insertList :
            KeyOf(contexts[last.ctx].insertList[i]) = <<last.kind, last.hash>>

\* the step is a Commit whose copy loop fails to read a surviving payload
CopyFailed ==
    /\ last'.op = "Commit"
    /\ last.op # "Crash"
    /\ last'.ctx \in DOMAIN contexts
    /\ ~NothingToCommit(contexts[last'.ctx])
    /\ copyReadFails(contexts[last'.ctx], contexts[last'.ctx].reference.contentKeys,
                     contexts[last'.ctx].dataOffset)

\* C29: errors during the data copy of Commit propagate: when reading a
\* surviving payload from the source fails, Commit returns an error and the
\* source file is not replaced by the incomplete destination.
C29_CopyErrorsPropagate ==
    [][CopyFailed =>
        /\ last'.res = "err"
        /\ disk'[last'.name].src = disk[last'.name].src
    ]_vars

\* the step belongs to a Commit of this application
CommitStep == last'.op \in {"Commit", "TryLock", "Rewrite"}

\* C30: the file rewrite of Commit runs only while holding the lock of the
\* database: with the lock held by another committer Commit fails without
\* creating a destination or a backup and without altering the source; the
\* lock is held at every step from writing the destination to deleting the
\* backup; and the lock is released whenever Commit returns, on success and on
\* every failure path.
C30_CommitUnderLock ==
    /\ [][(CommitStep /\ fileLocks[last'.name] = Other) =>
            /\ last'.op = "Commit"
            /\ last'.res = "err"
            /\ last'.step = LockStep
            /\ disk' = disk
            /\ contexts' = contexts
            /\ fileLocks' = fileLocks
            /\ ~rewrite'.active]_vars
    /\ [](rewrite.active => fileLocks[contexts[rewrite.ctx].name] = Self)
    /\ [][disk' # disk => fileLocks[last'.name] = Self]_vars
    /\ [][last'.op = "Commit" => (~rewrite'.active /\ fileLocks'[last'.name] # Self)]_vars
    /\ [](~rewrite.active => \A n \in Names : fileLocks[n] # Self)

\* a Commit was refused because another committer holds the lock, on a
\* database that an earlier Commit rewrote
C30_Witness ==
    /\ last.op = "Commit"
    /\ last.res = "err"
    /\ last.step = LockStep
    /\ fileLocks[last.name] = Other
    /\ last.ctx \in DOMAIN contexts
    /\ ~contexts[last.ctx].reference.isNil
    /\ Pending(contexts[last.ctx]) > 0

\* the last operation was a successful Commit that rewrote the file
RewriteDone == CommitDone /\ ~contexts[last.ctx].reference.isNil

\* C31: after every successful Commit that rewrote the file, neither the
\* destination nor the backup of the database exists, the source exists, and
\* the handle of the context is open on the new source, which starts with the
\* 8-byte length of the new reference.
C31_CleanAfterCommit ==
    RewriteDone =>
        LET ctx == contexts[last.ctx]
            files == disk[last.name]
        IN  /\ files.src.exists
            /\ ~files.dst.exists
            /\ ~files.bck.exists
            /\ ~ctx.pConn.closed
            /\ ctx.pConn.file = files.src
            /\ files.src.hasRef
            /\ ~files.src.torn
            /\ files.src.ref = ToContent(ctx.reference)
            /\ HeaderSize(files.src)
                    = expectedReferenceBytesLength + RefLen(ToContent(ctx.reference))

\* a Commit rewrote the file after an earlier Commit of the context had failed
C31_Witness ==
    /\ RewriteDone
    /\ failures > 0
    /\ disk[last.name].src.data # <<>>

\* the smaller of the stored length and the configured chunk size
ReadLimit ==
    IF reading.length < reading.readChunkSize THEN reading.length ELSE reading.readChunkSize

\* C32: for every stored reference length L and every configured chunk size,
\* Open reads exactly the L bytes after the 8-byte prefix, in reads no larger
\* than min(L, chunk size), ends without fault (also when L is a multiple of
\* the chunk size, when L is 0 and when the chunk size is 0), and returns the
\* data offset 8 + L.
C32_ChunkedRead ==
    /\ reading.status # "fault"
    /\ \A n \in DOMAIN reading.sizes : reading.sizes[n] <= ReadLimit
    /\ reading.status = "done" =>
            /\ SumSizes(reading.sizes) = reading.length
            /\ reading.offset = expectedReferenceBytesLength + reading.length

\* the step is a Commit of a context of the table that returned an error
CommitFailed ==
    /\ last'.op = "Commit"
    /\ last'.res = "err"
    /\ last.op # "Crash"
    /\ last'.ctx \in DOMAIN contexts

\* a Commit of the context meets no error unless a new failure is injected
CommitCanSucceed(d, ctx) == failingStep(d, ctx, NoFault) = NoFailure

\* C33: when Commit returns an error the reference, the data offset, the
\* pending insert list and the pending delete map of the context are as they
\* were before the call, so the same batch can be committed again.
C33_FailedCommitKeepsBatch ==
    [][CommitFailed =>
        LET before == contexts[last'.ctx]
            after == contexts'[last'.ctx]
        IN  /\ after.reference = before.reference
            /\ after.dataOffset = before.dataOffset
            /\ after.insertList = before.insertList
            /\ after.delList = before.delList
            /\ updateReference(after) = updateReference(before)
            /\ CommitCanSucceed(disk'[after.name], after)
    ]_vars

\* Close(context) returns no error: the handle of the context can be closed
CloseCanSucceed(ctx) == ~ctx.pConn.closed

\* C34: after a Commit that returned an error at any step the context is
\* still usable: engine Read of the keys that were live, and readable, before
\* the failed Commit still succeeds through the context, and Close of the
\* context succeeds, so that the name can be opened again.
C34_UsableAfterFailedCommit ==
    [][CommitFailed =>
        LET keys == contexts[last'.ctx].reference.contentKeys
        IN  /\ \A i \in DOMAIN keys :
                    engineRead(contexts, last'.ctx, keys[i].content).ok
                        => engineRead(contexts', last'.ctx, keys[i].content)
                                = engineRead(contexts, last'.ctx, keys[i].content)
            /\ CloseCanSucceed(contexts'[last'.ctx])
    ]_vars
====
